---- MODULE Spec2Model ----
(***************************************************************************)
(* The Hedera price-feed demo: the PriceFeed contract, the subgraph        *)
(* mapping that indexes its events, the update and deploy scripts that     *)
(* talk to the ledger, the query script that reports what the subgraph     *)
(* indexed, and the asset-name codec shared by the update and query        *)
(* scripts.                                                                *)
(*                                                                         *)
(* Strings are sequences of UTF-16 code units (all characters used are in  *)
(* the basic plane, so one code unit is one code point); byte arrays are   *)
(* sequences of 0..255.                                                    *)
(***************************************************************************)
EXTENDS Integers, Sequences, FiniteSets, TLC

VARIABLES
    \* ---- PriceFeed contract and the ledger that runs it
    owner,        \* address public owner
    prices,       \* mapping(bytes32 => uint256) prices, keyed by asset name
    eventLog,     \* events emitted by accepted transactions, in order
    txCount,      \* transactions the ledger has executed (accepted or reverted)
    blockTime,    \* block.timestamp of the next transaction
    lastCall,     \* the most recent contract call and how it ended
    \* ---- subgraph mapping (IndexingService)
    store,        \* entity id -> entity, as written by save()
    indexed,      \* number of events of eventLog already handled
    \* ---- asset-name codec
    cName,        \* the asset name under conversion
    cPc,          \* "start" | "encoded" | "decoded" | "threw"
    cBytes,       \* stringToBytes32's result
    cOut,         \* bytes32ToString's result
    \* ---- one invocation of scripts/update.ts or scripts/deploy.ts
    tool,         \* "none" | "update" | "deploy"
    pc,           \* position in main()
    argv,         \* process.argv.slice(2) as [price, asset], the raw values
    parsed,       \* parseArgs' result
    exitCode,     \* -1 while running, else the code given to process.exit
    reported,     \* what the script printed last as an error
    netOps,       \* LedgerGateway operations attempted by this invocation
    now,          \* milliseconds since the process started
    timers,       \* the setTimeout timers armed by this invocation
    tx,           \* the transaction this invocation submitted, on the ledger
    receipt,      \* the receipt main() got, if any
    runs,         \* invocations so far
    \* ---- files and mirror node
    manifest,     \* subgraph/subgraph.yaml, as lines
    settings,     \* .env, as lines
    startFiles,   \* both files as the current invocation found them
    initFiles,    \* both files as first found
    deploys,      \* number of deploys that ran to process.exit(0)
    nextContract, \* the ledger's next contract number
    mirror,       \* what the mirror node answered to this invocation
    \* ---- one invocation of scripts/query-history.ts
    qStatuses,    \* statusData.indexingStatuses, as answered
    qRecords,     \* priceData.priceUpdates, as answered
    qIndex,       \* position of the for loop over the statuses
    qLookups,     \* what the mirror node answered to each getBlockTimestamp
    qFailure,     \* the primary step that threw: "none" | "status" | "prices"
    statusReport, \* what was printed per indexing status
    priceReport   \* the price tables printed, in order

contractVars == <<owner, prices, eventLog, txCount, blockTime, lastCall, store, indexed>>
codecVars == <<cName, cPc, cBytes, cOut>>
procVars == <<tool, pc, argv, parsed, exitCode, reported, netOps, now, timers, tx, receipt, runs>>
fileVars == <<manifest, settings, startFiles, initFiles, deploys, nextContract, mirror>>
queryVars == <<qStatuses, qRecords, qIndex, qLookups, qFailure, statusReport, priceReport>>
toolVars == <<procVars, fileVars, queryVars>>
vars == <<contractVars, codecVars, toolVars>>

(***************************************************************************)
(* Characters and strings                                                  *)
(***************************************************************************)
NUL == 0
CharEq == 61
REPLACEMENT == 65533
BYTES32 == 32

RECURSIVE Rep(_, _)
\* n copies of the character c
Rep(c, n) == IF n <= 0 THEN <<>> ELSE <<c>> \o Rep(c, n - 1)

StrBTC == <<66, 84, 67>>
StrETH == <<69, 84, 72>>

\* TextEncoder.encode of one code unit (UTF-8, basic plane, no surrogates)
Utf8OfChar(c) ==
    IF c < 128 THEN <<c>>
    ELSE IF c < 2048 THEN <<192 + (c \div 64), 128 + (c % 64)>>
    ELSE <<224 + (c \div 4096), 128 + ((c \div 64) % 64), 128 + (c % 64)>>

RECURSIVE TextEncode(_)
TextEncode(str) ==
    IF str = <<>> THEN <<>> ELSE Utf8OfChar(Head(str)) \o TextEncode(Tail(str))

IsCont(b) == b >= 128 /\ b < 192

RECURSIVE Utf8Decode(_)
\* Buffer.toString(): UTF-8 decoding, an ill-formed byte becomes U+FFFD
Utf8Decode(bs) ==
    IF bs = <<>> THEN <<>>
    ELSE LET b == bs[1] IN
         IF b < 128 THEN <<b>> \o Utf8Decode(Tail(bs))
         ELSE IF b >= 194 /\ b < 224 /\ Len(bs) >= 2 /\ IsCont(bs[2])
              THEN <<(b - 192) * 64 + (bs[2] - 128)>> \o Utf8Decode(SubSeq(bs, 3, Len(bs)))
         ELSE IF b >= 224 /\ b < 240 /\ Len(bs) >= 3 /\ IsCont(bs[2]) /\ IsCont(bs[3])
                 /\ (b - 224) * 4096 + (bs[2] - 128) * 64 >= 2048
              THEN <<(b - 224) * 4096 + (bs[2] - 128) * 64 + (bs[3] - 128)>>
                   \o Utf8Decode(SubSeq(bs, 4, Len(bs)))
         ELSE <<REPLACEMENT>> \o Utf8Decode(Tail(bs))

HexDigit(n) == IF n < 10 THEN 48 + n ELSE 87 + n

HexVal(c) ==
    IF c >= 48 /\ c <= 57 THEN c - 48
    ELSE IF c >= 97 /\ c <= 102 THEN c - 87
    ELSE IF c >= 65 /\ c <= 70 THEN c - 55
    ELSE -1

RECURSIVE HexOfBytes(_)
HexOfBytes(bs) ==
    IF bs = <<>> THEN <<>>
    ELSE <<HexDigit(bs[1] \div 16), HexDigit(bs[1] % 16)>> \o HexOfBytes(Tail(bs))

Str0x == <<48, 120>>

\* a Bytes value as the subgraph's query API serialises it: "0x" and the hex digits
BytesToHex(bs) == Str0x \o HexOfBytes(bs)

RECURSIVE BufferFromHex(_)
\* Buffer.from(hex, 'hex'): pairs of hex digits, stopping at the first ill-formed pair
BufferFromHex(hex) ==
    IF Len(hex) < 2 \/ HexVal(hex[1]) < 0 \/ HexVal(hex[2]) < 0 THEN <<>>
    ELSE <<HexVal(hex[1]) * 16 + HexVal(hex[2])>> \o BufferFromHex(SubSeq(hex, 3, Len(hex)))

RECURSIVE StripTrailingNul(_)
\* .replace(/\0+$/, '')
StripTrailingNul(s) ==
    IF s # <<>> /\ s[Len(s)] = NUL THEN StripTrailingNul(SubSeq(s, 1, Len(s) - 1)) ELSE s

StartsWith0x(s) == Len(s) >= 2 /\ SubSeq(s, 1, 2) = Str0x

bytes32ToString(bytes32) ==
    LET hex == IF StartsWith0x(bytes32) THEN SubSeq(bytes32, 3, Len(bytes32)) ELSE bytes32
    IN  StripTrailingNul(Utf8Decode(BufferFromHex(hex)))

\* Uint8Array.set(src) on a new Uint8Array(32): RangeError when src does not fit
Uint8ArraySet(src) ==
    IF Len(src) > BYTES32 THEN [ok |-> FALSE, err |-> "RangeError", bytes |-> <<>>]
    ELSE [ok |-> TRUE, err |-> "", bytes |-> src \o Rep(0, BYTES32 - Len(src))]

stringToBytes32(str) ==
    IF Len(str) > BYTES32
    THEN [ok |-> FALSE, err |-> "Asset name must be 32 characters or less", bytes |-> <<>>]
    ELSE Uint8ArraySet(TextEncode(str))

(***************************************************************************)
(* scripts/update.ts: command line                                         *)
(***************************************************************************)
NoArg == <<-1>>

StrAssetFlag == <<45, 45, 97, 115, 115, 101, 116, 61>>
StrPriceFlag == <<45, 45, 112, 114, 105, 99, 101, 61>>

DEFAULT_PRICE == 55000

RECURSIVE SplitOn(_, _)
\* String.split(sep) for a one-character separator
SplitOn(s, sep) ==
    IF \A i \in 1..Len(s) : s[i] # sep THEN <<s>>
    ELSE LET k == CHOOSE i \in 1..Len(s) : s[i] = sep /\ \A j \in 1..(i - 1) : s[j] # sep
         IN  <<SubSeq(s, 1, k - 1)>> \o SplitOn(SubSeq(s, k + 1, Len(s)), sep)

IsDigit(c) == c >= 48 /\ c <= 57

RECURSIVE DigitsValue(_, _)
\* the value of the leading decimal digits of s, after acc
DigitsValue(s, acc) ==
    IF s = <<>> \/ ~IsDigit(Head(s)) THEN acc
    ELSE DigitsValue(Tail(s), acc * 10 + (Head(s) - 48))

\* parseInt(s): the leading digits with an optional sign, NaN when there is none
parseInt(s) ==
    LET neg  == s # <<>> /\ Head(s) = 45
        body == IF s # <<>> /\ Head(s) \in {43, 45} THEN Tail(s) ELSE s
    IN  IF body = <<>> \/ ~IsDigit(Head(body)) THEN [nan |-> TRUE, val |-> 0]
        ELSE [nan |-> FALSE,
              val |-> IF neg THEN 0 - DigitsValue(body, 0) ELSE DigitsValue(body, 0)]

\* the asset name the check of parseArgs lets through
AssetLengthOk(asset) == Len(asset) <= BYTES32

\* args: [price, asset], each the text after "--price=" / "--asset=", or NoArg
parseArgs(args) ==
    LET price == IF args.price # NoArg
                 THEN parseInt(SplitOn(StrPriceFlag \o args.price, CharEq)[2])
                 ELSE [nan |-> FALSE, val |-> DEFAULT_PRICE]
        asset == IF args.asset # NoArg
                 THEN SplitOn(StrAssetFlag \o args.asset, CharEq)[2]
                 ELSE StrBTC
    IN  IF price.nan
        THEN [exit |-> 1, err |-> "InvalidArgument: price", price |-> 0, asset |-> asset]
        ELSE IF ~AssetLengthOk(asset)
        THEN [exit |-> 1, err |-> "InvalidArgument: asset", price |-> price.val, asset |-> asset]
        ELSE [exit |-> -1, err |-> "", price |-> price.val, asset |-> asset]

(***************************************************************************)
(* PriceFeed contract                                                      *)
(***************************************************************************)
NumAccounts == 2
MaxTx == 2
MaxTime == 1
ZERO_ADDRESS == 0

Accounts == 1..NumAccounts
Addresses == {ZERO_ADDRESS} \cup Accounts

AssetNames == {StrBTC, StrETH}
AssetKey(name) == stringToBytes32(name).bytes
AssetKeys == {AssetKey(n) : n \in AssetNames}
PriceValues == {0, 123456}

NoCall == [fn |-> "none", caller |-> ZERO_ADDRESS, arg |-> <<>>, status |-> "none", result |-> 0]

\* a guard that only rules out the zero address
onlyOwner_NonZero(sender) == sender # ZERO_ADDRESS

\* modifier onlyOwner: require(msg.sender == owner)
onlyOwner(sender) == sender = owner

\* the zero-address check left out
NewOwnerOk_Any(newOwner) == TRUE

\* require(newOwner != address(0))
NewOwnerOk(newOwner) == newOwner # ZERO_ADDRESS

\* a price that is only written while the slot is still 0
StorePrice_FirstOnly(p, asset, price) == IF p[asset] = 0 THEN [p EXCEPT ![asset] = price] ELSE p

\* prices[asset] = price
StorePrice(p, asset, price) == [p EXCEPT ![asset] = price]

\* getPrice: return prices[asset]
getPrice(asset) == prices[asset]

\* a transaction that reverts: it is recorded by the ledger, the contract is untouched
Revert(fn, sender, arg, why) ==
    /\ lastCall' = [fn |-> fn, caller |-> sender, arg |-> arg, status |-> why, result |-> 0]
    /\ txCount' = txCount + 1
    /\ UNCHANGED <<owner, prices, eventLog>>

updatePrice(sender, asset, price) ==
    /\ txCount < MaxTx
    /\ IF ~onlyOwner(sender)
       THEN Revert("updatePrice", sender, <<asset, price>>, "Unauthorized")
       ELSE /\ prices' = StorePrice(prices, asset, price)
            /\ eventLog' = Append(eventLog,
                   [type |-> "PriceUpdated", asset |-> asset, price |-> price,
                    timestamp |-> blockTime, txHash |-> txCount + 1, logIndex |-> 0,
                    blockTimestamp |-> blockTime])
            /\ lastCall' = [fn |-> "updatePrice", caller |-> sender, arg |-> <<asset, price>>,
                            status |-> "OK", result |-> 0]
            /\ txCount' = txCount + 1
            /\ UNCHANGED owner
    /\ UNCHANGED <<blockTime, store, indexed>>

transferOwnership(sender, newOwner) ==
    /\ txCount < MaxTx
    /\ IF ~onlyOwner(sender)
       THEN Revert("transferOwnership", sender, <<newOwner>>, "Unauthorized")
       ELSE IF ~NewOwnerOk(newOwner)
       THEN Revert("transferOwnership", sender, <<newOwner>>, "InvalidArgument")
       ELSE /\ eventLog' = Append(eventLog,
                   [type |-> "OwnershipTransferred", previousOwner |-> owner,
                    newOwner |-> newOwner, txHash |-> txCount + 1, logIndex |-> 0,
                    blockTimestamp |-> blockTime])
            /\ owner' = newOwner
            /\ lastCall' = [fn |-> "transferOwnership", caller |-> sender, arg |-> <<newOwner>>,
                            status |-> "OK", result |-> 0]
            /\ txCount' = txCount + 1
            /\ UNCHANGED prices
    /\ UNCHANGED <<blockTime, store, indexed>>

\* a view call: no transaction, no state change
getPriceCall(asset) ==
    /\ lastCall' = [fn |-> "getPrice", caller |-> ZERO_ADDRESS, arg |-> <<asset>>,
                    status |-> "OK", result |-> getPrice(asset)]
    /\ UNCHANGED <<owner, prices, eventLog, txCount, blockTime, store, indexed>>

\* the ledger closes a block: block.timestamp moves on
NextBlock ==
    /\ blockTime < MaxTime
    /\ blockTime' = blockTime + 1
    /\ UNCHANGED <<owner, prices, eventLog, txCount, lastCall, store, indexed>>

(***************************************************************************)
(* Subgraph mapping                                                        *)
(***************************************************************************)
\* an id made of the log index alone
EntityId_LogIndexOnly(ev) == <<0, ev.logIndex>>

\* event.transaction.hash.toHex() + '-' + event.logIndex.toString()
EntityId(ev) == <<ev.txHash, ev.logIndex>>

\* entity.save(): insert, or overwrite the entity with the same type and id
save(st, e) == {x \in st : ~(x.kind = e.kind /\ x.id = e.id)} \cup {e}

handlePriceUpdated(ev) ==
    store' = save(store,
        [kind |-> "PriceUpdate", id |-> EntityId(ev), asset |-> ev.asset, price |-> ev.price,
         timestamp |-> ev.timestamp, transactionHash |-> ev.txHash])

handleOwnershipTransferred(ev) ==
    store' = save(store,
        [kind |-> "OwnershipTransfer", id |-> EntityId(ev), previousOwner |-> ev.previousOwner,
         newOwner |-> ev.newOwner, timestamp |-> ev.blockTimestamp,
         transactionHash |-> ev.txHash])

\* the graph node hands the next event of the contract to its handler
IndexEvent ==
    /\ indexed < Len(eventLog)
    /\ LET ev == eventLog[indexed + 1]
       IN  IF ev.type = "PriceUpdated" THEN handlePriceUpdated(ev)
           ELSE handleOwnershipTransferred(ev)
    /\ indexed' = indexed + 1
    /\ UNCHANGED <<owner, prices, eventLog, txCount, blockTime, lastCall>>

\* the rows of QueryTool's group for a display name
QueryGroup(name) ==
    {e \in store : e.kind = "PriceUpdate" /\ bytes32ToString(BytesToHex(e.asset)) = name}

(***************************************************************************)
(* Asset-name round trip: update.ts encodes, query-history.ts decodes      *)
(***************************************************************************)
MaxNameLen == 34

\* 'A', '=', e-acute (2 bytes in UTF-8), euro sign (3 bytes in UTF-8)
Alphabet == {65, 61, 233, 8364}

\* the names tried: a run of one character followed by a run of another
NameFamily ==
    {Rep(a, i) \o Rep(b, j) : <<a, b, i, j>> \in
        {q \in Alphabet \X Alphabet \X (0..MaxNameLen) \X (0..MaxNameLen) :
            q[3] + q[4] <= MaxNameLen /\ (q[3] = 0 => q[4] = 0) /\ (q[4] > 0 => q[1] # q[2])}}

\* main() of update.ts up to stringToBytes32, for the asset argument alone
CodecParse ==
    /\ cPc = "start"
    /\ LET r == parseArgs([price |-> NoArg, asset |-> cName])
       IN  /\ cPc' = IF r.exit = 1 THEN "rejected" ELSE "parsed"
           /\ cName' = r.asset
    /\ UNCHANGED <<cBytes, cOut>>

CodecEncode ==
    /\ cPc = "parsed"
    /\ LET r == stringToBytes32(cName)
       IN  /\ cPc' = IF r.ok THEN "encoded" ELSE "threw"
           /\ cBytes' = r.bytes
    /\ UNCHANGED <<cName, cOut>>

\* the identifier comes back from the subgraph as a hex string and is decoded
CodecDecode ==
    /\ cPc = "encoded"
    /\ cOut' = bytes32ToString(BytesToHex(cBytes))
    /\ cPc' = "decoded"
    /\ UNCHANGED <<cName, cBytes>>

CodecIdle == cName = <<>> /\ cPc = "idle" /\ cBytes = <<>> /\ cOut = <<>>

(***************************************************************************)
(* Initial states                                                          *)
(***************************************************************************)
\* constructor: owner = msg.sender
ContractInit(deployer) ==
    /\ owner = deployer
    /\ prices = [k \in AssetKeys |-> 0]
    /\ eventLog = <<>>
    /\ txCount = 0
    /\ blockTime = 0
    /\ lastCall = NoCall
    /\ store = {}
    /\ indexed = 0

\* the contract is not part of the run
ContractIdle ==
    /\ owner = 1 /\ prices = <<>> /\ eventLog = <<>> /\ txCount = 0 /\ blockTime = 0
    /\ lastCall = NoCall /\ store = {} /\ indexed = 0

\* query-history.ts has not run
QueryIdle ==
    /\ qStatuses = <<>> /\ qRecords = <<>> /\ qIndex = 0 /\ qLookups = <<>>
    /\ qFailure = "none" /\ statusReport = <<>> /\ priceReport = <<>>

ToolsIdle ==
    /\ QueryIdle
    /\ tool = "none" /\ pc = "idle" /\ argv = <<>> /\ parsed = <<>> /\ exitCode = -1
    /\ reported = "" /\ netOps = <<>> /\ now = 0 /\ timers = <<>> /\ tx = <<>>
    /\ receipt = <<>> /\ runs = 0
    /\ manifest = <<>> /\ settings = <<>> /\ startFiles = <<>> /\ initFiles = <<>>
    /\ deploys = 0 /\ nextContract = 0 /\ mirror = <<>>

(***************************************************************************)
(* Spec: the contract on the ledger and the subgraph that indexes it       *)
(***************************************************************************)
Init == (\E d \in Accounts : ContractInit(d)) /\ CodecIdle /\ ToolsIdle

Next ==
    \/ (\E s \in Accounts, a \in AssetKeys, p \in PriceValues : updatePrice(s, a, p))
           /\ UNCHANGED <<codecVars, toolVars>>
    \/ (\E s \in Accounts, n \in Addresses : transferOwnership(s, n))
           /\ UNCHANGED <<codecVars, toolVars>>
    \/ (\E a \in AssetKeys : getPriceCall(a))
           /\ UNCHANGED <<codecVars, toolVars>>
    \/ NextBlock /\ UNCHANGED <<codecVars, toolVars>>
    \/ IndexEvent /\ UNCHANGED <<codecVars, toolVars>>

Spec == Init /\ [][Next]_vars

(***************************************************************************)
(* SpecCodec: every name of the family through encode and decode           *)
(***************************************************************************)
CodecInit ==
    /\ cName \in NameFamily /\ cPc = "start" /\ cBytes = <<>> /\ cOut = <<>>
    /\ ContractIdle /\ ToolsIdle

CodecNext ==
    \/ CodecParse /\ UNCHANGED <<contractVars, toolVars>>
    \/ CodecEncode /\ UNCHANGED <<contractVars, toolVars>>
    \/ CodecDecode /\ UNCHANGED <<contractVars, toolVars>>

SpecCodec == CodecInit /\ [][CodecNext]_vars

(***************************************************************************)
(* Claims about the contract and the subgraph (checked under Spec)         *)
(***************************************************************************)
\* a step that executed one more transaction
TxStep == txCount' = txCount + 1

\* the price of the last PriceUpdated event for an asset, 0 when there is none
LastSet(asset) ==
    LET S == {i \in 1..Len(eventLog) :
                  eventLog[i].type = "PriceUpdated" /\ eventLog[i].asset = asset}
    IN  IF S = {} THEN 0
        ELSE eventLog[CHOOSE i \in S : \A j \in S : j <= i].price

\* C1: an updatePrice or transferOwnership transaction whose sender is not the
\* current owner reverts as Unauthorized and leaves every price and the owner
\* unchanged, whatever happened before (a former owner included).
C1_NonOwnerRejected ==
    [][(TxStep /\ lastCall'.caller # owner)
          => (lastCall'.status = "Unauthorized" /\ prices' = prices /\ owner' = owner)]_vars

\* a former owner was turned away
C1_Witness ==
    /\ lastCall.status = "Unauthorized"
    /\ \E i \in 1..Len(eventLog) :
          /\ eventLog[i].type = "OwnershipTransferred"
          /\ eventLog[i].previousOwner = lastCall.caller
          /\ eventLog[i].newOwner = owner

\* C2: transferOwnership(0) always fails (InvalidArgument for the owner,
\* Unauthorized for anyone else) and leaves owner unchanged; owner is never the
\* zero address.
C2_OwnerNeverZero ==
    /\ [](owner # ZERO_ADDRESS)
    /\ [][(TxStep /\ lastCall'.fn = "transferOwnership" /\ lastCall'.arg[1] = ZERO_ADDRESS)
             => /\ owner' = owner
                /\ lastCall'.status =
                       IF lastCall'.caller = owner THEN "InvalidArgument" ELSE "Unauthorized"]_vars

\* the owner tried to hand the contract to the zero address, after a transfer
C2_Witness ==
    /\ lastCall.fn = "transferOwnership"
    /\ lastCall.status = "InvalidArgument"
    /\ lastCall.caller = owner
    /\ Len(eventLog) > 0

\* C3: getPrice never fails and returns the price of the most recent successful
\* updatePrice for that asset, 0 when there was none; a successful
\* updatePrice(asset, price) sets prices[asset] and changes no other price nor
\* the owner.
C3_GetPriceIsLastSet ==
    /\ [](/\ \A a \in AssetKeys : getPrice(a) = LastSet(a)
          /\ lastCall.fn = "getPrice"
                => lastCall.status = "OK" /\ lastCall.result = LastSet(lastCall.arg[1]))
    /\ [][(TxStep /\ lastCall'.fn = "updatePrice" /\ lastCall'.status = "OK")
             => /\ prices'[lastCall'.arg[1]] = lastCall'.arg[2]
                /\ \A k \in AssetKeys \ {lastCall'.arg[1]} : prices'[k] = prices[k]
                /\ owner' = owner]_vars

\* getPrice read an asset that was set twice, and another asset was never set
C3_Witness ==
    /\ lastCall.fn = "getPrice"
    /\ lastCall.result = 0
    /\ \E i, j \in 1..Len(eventLog) :
          /\ i < j
          /\ eventLog[i].type = "PriceUpdated" /\ eventLog[j].type = "PriceUpdated"
          /\ eventLog[i].asset = lastCall.arg[1] /\ eventLog[j].asset = lastCall.arg[1]
          /\ eventLog[i].price # 0
    /\ \E k \in AssetKeys : LastSet(k) = 0 /\ k # lastCall.arg[1]

\* the PriceUpdated events the subgraph has handled
HandledUpdates == {i \in 1..indexed : eventLog[i].type = "PriceUpdated"}

PriceRecords == {e \in store : e.kind = "PriceUpdate"}

\* C9: every accepted updatePrice emits one event, a rejected one none; each
\* handled event has exactly one PriceUpdate record, with its asset, price,
\* timestamp and transaction hash, found in QueryTool's group of the decoded
\* asset name; a record, once saved, is never changed or removed.
C9_OneRecordPerUpdate ==
    /\ [](/\ Cardinality(PriceRecords) = Cardinality(HandledUpdates)
          /\ \A i \in HandledUpdates :
                LET ev == eventLog[i]
                    rs == {e \in PriceRecords : e.transactionHash = ev.txHash}
                IN  /\ Cardinality(rs) = 1
                    /\ \A e \in rs : /\ e.asset = ev.asset /\ e.price = ev.price
                                     /\ e.timestamp = ev.timestamp
                    /\ \A n \in AssetNames : ev.asset = AssetKey(n) => rs \subseteq QueryGroup(n))
    /\ [][/\ \A e \in store : e \in store'
          /\ (TxStep /\ lastCall'.fn = "updatePrice") =>
                IF lastCall'.status = "OK"
                THEN /\ Len(eventLog') = Len(eventLog) + 1
                     /\ LET ev == eventLog'[Len(eventLog')]
                        IN  /\ ev.type = "PriceUpdated"
                            /\ <<ev.asset, ev.price>> = lastCall'.arg
                            /\ ev.timestamp = blockTime
                            /\ ev.txHash = txCount'
                ELSE eventLog' = eventLog]_vars

\* two accepted updates, the second of BTC at 123456, both indexed
C9_Witness ==
    /\ indexed = Len(eventLog)
    /\ Cardinality(PriceRecords) = 2
    /\ \E e \in QueryGroup(StrBTC) : e.price = 123456 /\ e.transactionHash = 2

(***************************************************************************)
(* Claims about the asset-name codec (checked under SpecCodec)             *)
(***************************************************************************)
\* C4: every asset name of at most 32 characters that parseArgs lets through
\* is encoded by stringToBytes32, and decoding the identifier with
\* bytes32ToString gives the name back.
C4_RoundTrip ==
    /\ cPc # "threw"
    /\ cPc = "decoded" => cOut = cName

(***************************************************************************)
(* Files: subgraph/subgraph.yaml and .env                                  *)
(*                                                                         *)
(* A file is the sequence of its lines (the text split at "\n").  A line   *)
(* is pre ++ key ++ val: key is the first field name on the line that the  *)
(* scripts look for ("" when there is none), pre the text before it, val   *)
(* the rest of the line.  A value is [tag, n]: "id" the contract id        *)
(* 0.0.n, "addr" its 0x solidity address, "block" a block number, "key" a  *)
(* private key (n = 1 when well-formed), "text" anything else, "empty".    *)
(***************************************************************************)
Val(tag, n) == [tag |-> tag, n |-> n]
Line(pre, key, val) == [pre |-> pre, key |-> key, val |-> val]
EmptyLine == Line("", "", Val("empty", 0))

KEY_CONTRACT == "CONTRACT_ID="
KEY_OPERATOR == "HEDERA_OPERATOR_ID="
KEY_PRIVATE == "HEDERA_OPERATOR_KEY="
KEY_ADDRESS == "address:"
KEY_START == "startBlock:"

\* text.includes(key)
Includes(file, key) == \E i \in 1..Len(file) : file[i].key = key

\* text.replace(/key.*/, key ++ val): the first match, to the end of its line
ReplaceFirst(file, key, val) ==
    IF ~Includes(file, key) THEN file
    ELSE LET k == CHOOSE i \in 1..Len(file) :
                      file[i].key = key /\ \A j \in 1..(i - 1) : file[j].key # key
         IN  [file EXCEPT ![k] = Line(file[k].pre, key, val)]

\* text += "\n" ++ key ++ val
AppendLine(file, key, val) == Append(file, Line("", key, val))

\* the .env rewrite that appends without looking for an entry
WriteContractId_Append(file, id) == AppendLine(file, KEY_CONTRACT, id)

\* deploy.ts: replace the CONTRACT_ID entry if the text has one, else append it
WriteContractId(file, id) ==
    IF Includes(file, KEY_CONTRACT) THEN ReplaceFirst(file, KEY_CONTRACT, id)
    ELSE AppendLine(file, KEY_CONTRACT, id)

\* deploy.ts: the two replacements in subgraph.yaml
RewriteManifest(file, blockNumber, evmAddress) ==
    ReplaceFirst(ReplaceFirst(file, KEY_START, Val("block", blockNumber)),
                 KEY_ADDRESS, evmAddress)

\* ContractId.toString() and "0x" ++ ContractId.toSolidityAddress()
ContractIdText(n) == Val("id", n)
EvmAddress(n) == Val("addr", n)

\* dotenv: the value of a variable, that of its last assignment; "empty" when unset
EnvGet(file, key) ==
    LET S == {i \in 1..Len(file) : file[i].pre = "" /\ file[i].key = key}
    IN  IF S = {} THEN Val("empty", 0)
        ELSE file[CHOOSE i \in S : \A j \in S : j <= i].val

\* !process.env.X
Missing(file, key) == EnvGet(file, key).tag = "empty"

\* PrivateKey.fromStringECDSA throws on a malformed key
KeyParses(v) == v.tag = "key" /\ v.n = 1

\* ContractId.fromString throws on anything but shard.realm.num
ContractIdParses(v) == v.tag = "id"

ManifestA ==
    << Line("", "specVersion:", Val("text", 1)),
       Line("      ", KEY_ADDRESS, Val("text", 0)),
       Line("      ", "abi:", Val("text", 2)),
       Line("      ", KEY_START, Val("block", 0)) >>

ManifestB ==
    << Line("      ", KEY_START, Val("block", 0)),
       Line("      ", KEY_ADDRESS, Val("text", 0)),
       EmptyLine >>

\* .env as the README gives it, without its CONTRACT_ID line, with the entry of
\* an earlier deploy, and with a malformed or missing key
InitialFiles ==
    { [manifest |-> ManifestA,
       settings |-> << Line("", KEY_OPERATOR, Val("text", 1)),
                       Line("", KEY_PRIVATE, Val("key", 1)),
                       Line("", KEY_CONTRACT, Val("text", 0)) >>],
      [manifest |-> ManifestB,
       settings |-> << Line("", KEY_OPERATOR, Val("text", 1)),
                       Line("", KEY_PRIVATE, Val("key", 1)),
                       EmptyLine >>],
      [manifest |-> ManifestB,
       settings |-> << Line("", KEY_CONTRACT, Val("id", 1)),
                       Line("", KEY_OPERATOR, Val("text", 1)),
                       Line("", KEY_PRIVATE, Val("key", 1)) >>],
      [manifest |-> ManifestA,
       settings |-> << Line("", KEY_OPERATOR, Val("text", 1)),
                       Line("", KEY_PRIVATE, Val("key", 0)),
                       Line("", KEY_CONTRACT, Val("id", 1)) >>],
      [manifest |-> ManifestA,
       settings |-> << Line("", KEY_OPERATOR, Val("text", 1)),
                       Line("", KEY_CONTRACT, Val("id", 1)) >>] }

(***************************************************************************)
(* Mirror node: the blocks of the chain                                    *)
(***************************************************************************)
NumBlocks == 2
BLOCK_SPAN == 2

\* block number b closes at consensus time b * BLOCK_SPAN
BlockTimestamp(b) == b * BLOCK_SPAN
ConsensusTimes == 1..(NumBlocks * BLOCK_SPAN)

\* the first block the mirror has, whatever its time
FirstBlock_NoFilter(ts, height) == IF height >= 1 THEN <<1>> ELSE <<>>

\* GET /api/v1/blocks?timestamp=gte:ts&order=asc&limit=1, when the mirror has
\* ingested blocks 1..height: data.blocks
FirstBlockAtOrAfter(ts, height) ==
    LET S == {b \in 1..height : BlockTimestamp(b) >= ts}
    IN  IF S = {} THEN <<>> ELSE <<CHOOSE b \in S : \A c \in S : b <= c>>

(***************************************************************************)
(* scripts/update.ts and scripts/deploy.ts: one process at a time          *)
(*                                                                         *)
(* JavaScript runs each stretch of code between two awaits without         *)
(* interruption, so each action is one such stretch: the start of main()   *)
(* up to its first await, and the continuation of each await.  The files   *)
(* are taken to be readable and writable throughout.                       *)
(***************************************************************************)
TIMEOUT_MS == 30000
TickMs == 10000
MaxRuns == 2

\* --price= absent and "abc"; --asset= absent, 33 times "A", "A=" and 32 times
\* "B", 11 euro signs
ArgPrices == {NoArg, <<97, 98, 99>>}
ArgAssets == {NoArg, Rep(65, 33), <<65, 61>> \o Rep(66, 32), Rep(8364, 11)}

RacedWaits == {"execWait", "receiptWait"}
Waits == RacedWaits \cup {"recordWait", "mirrorWait"}

NoTimers == [i \in {1, 2} |-> [state |-> "unset", deadline |-> 0]]
NoTx == [state |-> "none", kind |-> "none", status |-> "", contract |-> 0, ts |-> 0]
NoReceipt == [status |-> "none", contract |-> 0]
NoParsed == [exit |-> -1, err |-> "", price |-> 0, asset |-> <<>>]

\* setTimeout(() => reject(...), 30000)
Arm(tm, i) == [tm EXCEPT ![i] = [state |-> "armed", deadline |-> now + TIMEOUT_MS]]

\* getReceipt awaited on its own, outside any race
RacePending_ExecuteOnly(i) == i = 1 /\ pc = "execWait"

\* the race a timer belongs to is the await main() is at
RacePending(i) == (i = 1 /\ pc = "execWait") \/ (i = 2 /\ pc = "receiptWait")

\* process.exit(code): the process is gone, and its clock and timers with it;
\* what is kept of the timers is which of them had fired
Exit(code, rep) ==
    /\ pc' = "exited"
    /\ exitCode' = code
    /\ reported' = rep
    /\ now' = 0

Forget(tm) == [i \in {1, 2} |-> [state |-> tm[i].state, deadline |-> 0]]

\* main() of update.ts from parseArgs to transaction.execute(client)
UpdatePrefix(args, env) ==
    LET a == parseArgs(args)
    IN  IF a.exit = 1
        THEN [exit |-> 1, err |-> "InvalidArgument", ops |-> <<>>]
        ELSE IF Missing(env, KEY_OPERATOR) \/ Missing(env, KEY_PRIVATE)
                   \/ Missing(env, KEY_CONTRACT)
        THEN [exit |-> 1, err |-> "ConfigMissing", ops |-> <<"createClient">>]
        ELSE IF ~KeyParses(EnvGet(env, KEY_PRIVATE))
        THEN [exit |-> 1, err |-> "Fatal", ops |-> <<"createClient">>]
        ELSE IF ~ContractIdParses(EnvGet(env, KEY_CONTRACT))
        THEN [exit |-> 1, err |-> "Fatal", ops |-> <<"createClient">>]
        ELSE IF ~stringToBytes32(a.asset).ok
        THEN [exit |-> 1, err |-> "Fatal", ops |-> <<"createClient">>]
        ELSE [exit |-> -1, err |-> "", ops |-> <<"createClient", "execute">>]

\* main() of deploy.ts up to contractCreate.execute(client)
DeployPrefix(env) ==
    IF Missing(env, KEY_OPERATOR) \/ Missing(env, KEY_PRIVATE)
    THEN [exit |-> 1, err |-> "ConfigMissing", ops |-> <<>>]
    ELSE IF ~KeyParses(EnvGet(env, KEY_PRIVATE))
    THEN [exit |-> 1, err |-> "Fatal", ops |-> <<>>]
    ELSE [exit |-> -1, err |-> "", ops |-> <<"createClient", "execute">>]

\* a new process: what the previous one left in memory is gone
StartProcess(t, args, r, kind) ==
    /\ pc \in {"idle", "exited"}
    /\ runs < MaxRuns
    /\ runs' = runs + 1
    /\ tool' = t
    /\ argv' = args
    /\ receipt' = NoReceipt
    /\ mirror' = <<>>
    /\ startFiles' = [manifest |-> manifest, settings |-> settings]
    /\ netOps' = r.ops
    /\ IF r.exit = 1
       THEN /\ Exit(1, r.err)
            /\ timers' = NoTimers
            /\ tx' = NoTx
       ELSE /\ pc' = "execWait"
            /\ exitCode' = -1
            /\ reported' = ""
            /\ now' = 0
            /\ timers' = [NoTimers EXCEPT ![1] = [state |-> "armed", deadline |-> TIMEOUT_MS]]
            /\ tx' = [NoTx EXCEPT !.state = "sent", !.kind = kind]
    /\ UNCHANGED <<manifest, settings, initFiles, deploys, nextContract>>

InvokeUpdate(args) ==
    /\ StartProcess("update", args, UpdatePrefix(args, settings), "call")
    /\ parsed' = parseArgs(args)

InvokeDeploy ==
    /\ StartProcess("deploy", [price |-> NoArg, asset |-> NoArg], DeployPrefix(settings), "create")
    /\ parsed' = NoParsed

\* the timer that re-submits the transaction instead of giving up
OnTimeout_Retry ==
    /\ pc' = "execWait"
    /\ reported' = "Timeout"
    /\ netOps' = Append(netOps, "execute")
    /\ tx' = [NoTx EXCEPT !.state = "sent", !.kind = tx.kind]
    /\ UNCHANGED <<exitCode, now>>

\* the timer's reject wins the race: the catch block reports it and exits 1
OnTimeout ==
    /\ Exit(1, "Timeout")
    /\ UNCHANGED <<netOps, tx>>

\* a timer that is due runs its callback
TimerFires(i) ==
    /\ pc \in Waits
    /\ timers[i].state = "armed"
    /\ now >= timers[i].deadline
    /\ IF RacePending(i)
       THEN /\ OnTimeout
            /\ timers' = Forget([timers EXCEPT ![i].state = "fired"])
       ELSE /\ timers' = [timers EXCEPT ![i].state = "fired"]
            /\ UNCHANGED <<pc, exitCode, reported, now, netOps, tx>>
    /\ UNCHANGED <<tool, argv, parsed, receipt, runs, fileVars>>

\* time passes while main() waits; a due timer fires before more time passes
Tick ==
    /\ pc \in Waits
    /\ \E i \in {1, 2} : timers[i].state = "armed"
    /\ \A i \in {1, 2} : timers[i].state = "armed" => timers[i].deadline > now
    /\ now' = now + TickMs
    /\ UNCHANGED <<tool, pc, argv, parsed, exitCode, reported, netOps, timers, tx, receipt,
                   runs, fileVars>>

\* the node's precheck of the submitted transaction
LedgerPrecheck(ok) ==
    /\ tx.state = "sent"
    /\ tx' = [tx EXCEPT !.state = IF ok THEN "accepted" ELSE "refused"]
    /\ UNCHANGED <<tool, pc, argv, parsed, exitCode, reported, netOps, now, timers, receipt,
                   runs, fileVars>>

\* consensus: the transaction is executed, whether or not its sender still waits
LedgerConsensus(status, ts) ==
    /\ tx.state = "accepted"
    /\ LET created == tx.kind = "create" /\ status = "SUCCESS"
       IN  /\ tx' = [tx EXCEPT !.state = "done", !.status = status, !.ts = ts,
                               !.contract = IF created THEN nextContract ELSE 0]
           /\ nextContract' = IF created THEN nextContract + 1 ELSE nextContract
    /\ UNCHANGED <<tool, pc, argv, parsed, exitCode, reported, netOps, now, timers, receipt,
                   runs, manifest, settings, startFiles, initFiles, deploys, mirror>>

\* the catch block of main(): report and exit 1
Caught ==
    /\ Exit(1, "Error")
    /\ timers' = Forget(timers)
    /\ UNCHANGED <<netOps, receipt, fileVars>>

\* execute(client) settles first: main() goes on to getReceipt, racing a new timer
ExecuteSettles(ok) ==
    /\ pc = "execWait"
    /\ IF ok
       THEN /\ tx.state \in {"accepted", "done"}
            /\ pc' = "receiptWait"
            /\ netOps' = Append(netOps, "getReceipt")
            /\ timers' = Arm(timers, 2)
            /\ UNCHANGED <<exitCode, reported, now, receipt, fileVars>>
       ELSE Caught
    /\ UNCHANGED <<tool, argv, parsed, tx, runs>>

\* update.ts after the receipt: print the status, exit 0
UpdateAfterReceipt(rc) ==
    /\ Exit(0, "")
    /\ timers' = Forget(timers)
    /\ UNCHANGED <<netOps, fileVars>>

\* deploy.ts after the receipt: the status and contract id checks, then getRecord
DeployAfterReceipt(rc) ==
    IF rc.status # "SUCCESS"
    THEN Exit(1, "DeployRejected") /\ timers' = Forget(timers) /\ UNCHANGED <<netOps, fileVars>>
    ELSE IF rc.contract = 0
    THEN Exit(1, "NoContractId") /\ timers' = Forget(timers) /\ UNCHANGED <<netOps, fileVars>>
    ELSE /\ pc' = "recordWait"
         /\ netOps' = Append(netOps, "getRecord")
         /\ UNCHANGED <<exitCode, reported, now, timers, fileVars>>

\* getReceipt(client) settles first, with a receipt or with an error
ReceiptSettles(ok) ==
    /\ pc = "receiptWait"
    /\ IF ok
       THEN /\ tx.state = "done"
            /\ LET rc == [status |-> tx.status, contract |-> tx.contract]
               IN  /\ receipt' = rc
                   /\ IF tool = "update" THEN UpdateAfterReceipt(rc) ELSE DeployAfterReceipt(rc)
       ELSE Caught
    /\ UNCHANGED <<tool, argv, parsed, tx, runs>>

\* getRecord(client) settles: main() goes on to ask the mirror node
RecordSettles(ok) ==
    /\ pc = "recordWait"
    /\ IF ok
       THEN /\ pc' = "mirrorWait"
            /\ netOps' = Append(netOps, "fetchBlocks")
            /\ UNCHANGED <<exitCode, reported, now, timers, receipt, fileVars>>
       ELSE Caught
    /\ UNCHANGED <<tool, argv, parsed, tx, runs>>

\* deploy.ts from the mirror's answer to process.exit(0)
WriteArtifacts(blocks) ==
    /\ manifest' = IF blocks # <<>>
                   THEN RewriteManifest(manifest, blocks[1], EvmAddress(receipt.contract))
                   ELSE manifest
    /\ settings' = WriteContractId(settings, ContractIdText(receipt.contract))
    /\ deploys' = deploys + 1

\* fetch(mirrorNodeUrl) and response.json() settle; the mirror has ingested
\* the blocks up to height
MirrorSettles(ok, height) ==
    /\ pc = "mirrorWait"
    /\ IF ok
       THEN /\ mirror' = FirstBlockAtOrAfter(tx.ts, height)
            /\ WriteArtifacts(mirror')
            /\ Exit(0, "")
            /\ timers' = Forget(timers)
            /\ UNCHANGED <<netOps, receipt, startFiles, initFiles, nextContract>>
       ELSE Caught
    /\ UNCHANGED <<tool, argv, parsed, tx, runs>>

ToolsInit ==
    /\ tool = "none" /\ pc = "idle" /\ argv = [price |-> NoArg, asset |-> NoArg]
    /\ parsed = NoParsed /\ exitCode = -1 /\ reported = "" /\ netOps = <<>> /\ now = 0
    /\ timers = NoTimers /\ tx = NoTx /\ receipt = NoReceipt /\ runs = 0
    /\ initFiles \in InitialFiles
    /\ manifest = initFiles.manifest /\ settings = initFiles.settings
    /\ startFiles = initFiles
    /\ deploys = 0 /\ nextContract = 2 /\ mirror = <<>>
    /\ ContractIdle /\ CodecIdle /\ QueryIdle

ToolsNext ==
    \/ (\E p \in ArgPrices, a \in ArgAssets : InvokeUpdate([price |-> p, asset |-> a]))
           /\ UNCHANGED <<contractVars, codecVars, queryVars>>
    \/ InvokeDeploy /\ UNCHANGED <<contractVars, codecVars, queryVars>>
    \/ Tick /\ UNCHANGED <<contractVars, codecVars, queryVars>>
    \/ (\E i \in {1, 2} : TimerFires(i)) /\ UNCHANGED <<contractVars, codecVars, queryVars>>
    \/ (\E ok \in BOOLEAN : LedgerPrecheck(ok)) /\ UNCHANGED <<contractVars, codecVars, queryVars>>
    \/ (\E st \in {"SUCCESS", "CONTRACT_REVERT_EXECUTED"},
           ts \in ConsensusTimes : LedgerConsensus(st, ts))
           /\ UNCHANGED <<contractVars, codecVars, queryVars>>
    \/ (\E ok \in BOOLEAN : ExecuteSettles(ok)) /\ UNCHANGED <<contractVars, codecVars, queryVars>>
    \/ (\E ok \in BOOLEAN : ReceiptSettles(ok)) /\ UNCHANGED <<contractVars, codecVars, queryVars>>
    \/ (\E ok \in BOOLEAN : RecordSettles(ok)) /\ UNCHANGED <<contractVars, codecVars, queryVars>>
    \/ (\E ok \in BOOLEAN, h \in 0..NumBlocks : MirrorSettles(ok, h))
           /\ UNCHANGED <<contractVars, codecVars, queryVars>>

SpecTools == ToolsInit /\ [][ToolsNext]_vars

\* the event loop runs a due timer's callback, and time passes while a timer
\* is pending; nothing is assumed of the ledger or the mirror node
TimerStep == (\E i \in {1, 2} : TimerFires(i)) /\ UNCHANGED <<contractVars, codecVars, queryVars>>
ClockStep == Tick /\ UNCHANGED <<contractVars, codecVars, queryVars>>

SpecToolsFair == SpecTools /\ WF_vars(TimerStep) /\ WF_vars(ClockStep)

(***************************************************************************)
(* Claims about the scripts (checked under SpecTools)                      *)
(***************************************************************************)
Exited(t) == tool = t /\ pc = "exited"

\* C5: an update.ts invocation whose --asset= value is longer than 32
\* characters ends with exit code 1 on the asset check, before any
\* LedgerGateway operation.
C5_LongAssetRejected ==
    (tool = "update" /\ argv.asset # NoArg /\ Len(argv.asset) > BYTES32)
        => (pc = "exited" /\ exitCode = 1 /\ reported = "InvalidArgument" /\ netOps = <<>>)

Submissions == Cardinality({i \in 1..Len(netOps) : netOps[i] = "execute"})

\* C7: while main() awaits execute or getReceipt, the timer of that race is
\* armed, set 30 s after the race began; when it fires first the script
\* reports Timeout and exits 1 with both files untouched; nothing the ledger
\* does after the exit changes the exit code, the report or the files; an
\* invocation submits at most once.
C7_TimeoutIsFinal ==
    /\ [](/\ Submissions <= 1
          /\ \A i \in {1, 2} : RacePending(i) =>
                /\ timers[i].state = "armed"
                /\ timers[i].deadline <= now + TIMEOUT_MS
                /\ now < timers[i].deadline + TickMs)
    /\ [][/\ \A i \in {1, 2} :
                (RacePending(i) /\ timers[i].state = "armed" /\ timers'[i].state = "fired")
                    => /\ pc' = "exited" /\ exitCode' = 1 /\ reported' = "Timeout"
                       /\ manifest' = manifest /\ settings' = settings
          /\ (pc = "exited" /\ runs' = runs)
                => /\ pc' = "exited" /\ exitCode' = exitCode /\ reported' = reported
                   /\ manifest' = manifest /\ settings' = settings
                   /\ netOps' = netOps]_vars

\* deploy.ts timed out on the receipt, and the ledger created the contract all the same
C7_Witness ==
    /\ Exited("deploy") /\ exitCode = 1 /\ reported = "Timeout"
    /\ timers[2].state = "fired"
    /\ tx.state = "done" /\ tx.status = "SUCCESS"
    /\ manifest = initFiles.manifest /\ settings = initFiles.settings

CountKey(file, key) == Cardinality({i \in 1..Len(file) : file[i].key = key})

\* the value of the first line that has the key
FieldOf(file, key) ==
    file[CHOOSE i \in 1..Len(file) : file[i].key = key /\ \A j \in 1..(i - 1) : file[j].key # key].val

NotContractLine(l) == l.key # KEY_CONTRACT

\* the manifest differs from another at most in the values of address: and startBlock:
SameButFields(m, m0) ==
    /\ Len(m) = Len(m0)
    /\ \A i \in 1..Len(m) :
          /\ m[i].pre = m0[i].pre /\ m[i].key = m0[i].key
          /\ m[i].key \notin {KEY_ADDRESS, KEY_START} => m[i].val = m0[i].val

\* the settings differ from others at most in the CONTRACT_ID line
SameButContract(f, f0) ==
    /\ SelectSeq(f, NotContractLine) = SelectSeq(f0, NotContractLine)
    /\ Len(f) = Len(f0) + (IF Includes(f0, KEY_CONTRACT) THEN 0 ELSE 1)

\* b is the first block of the chain at or after time ts
IsFirstBlockAtOrAfter(b, ts) ==
    /\ BlockTimestamp(b) >= ts
    /\ \A c \in 1..NumBlocks : BlockTimestamp(c) >= ts => b <= c

\* the manifest names the contract of the receipt and its first block
ManifestDescribesDeploy ==
    /\ FieldOf(manifest, KEY_ADDRESS) = EvmAddress(receipt.contract)
    /\ FieldOf(manifest, KEY_START).tag = "block"
    /\ IsFirstBlockAtOrAfter(FieldOf(manifest, KEY_START).n, tx.ts)

OneOfEach ==
    /\ CountKey(settings, KEY_CONTRACT) = 1
    /\ CountKey(manifest, KEY_ADDRESS) = 1
    /\ CountKey(manifest, KEY_START) = 1
    /\ SameButFields(manifest, initFiles.manifest)
    /\ SameButContract(settings, initFiles.settings)

SecondDeployDone == Exited("deploy") /\ exitCode = 0 /\ deploys >= 2

FilesUntouched == manifest = startFiles.manifest /\ settings = startFiles.settings

DeployGaveUp == Exited("deploy") /\ exitCode = 1 /\ reported \in {"Timeout", "DeployRejected"}

UnracedWaits == Waits \ RacedWaits

\* C13 as stated: every invocation of the update or deploy script eventually
\* exits, with code 0 or 1, whatever the ledger and the mirror node do, as
\* long as timers fire.
C13_AlwaysTerminates ==
    /\ [](pc = "exited" => exitCode \in {0, 1})
    /\ (pc \in Waits) ~> (pc = "exited")

\* C13, amended: with timers firing, every invocation that waits for a
\* submission or a receipt eventually exits with code 0 or 1 or, in the
\* deploy script only, waits for the record or for the mirror node's blocks;
\* the update script has no such wait, so it always exits.
C13_TerminatesUnlessUnracedWait ==
    /\ [](pc = "exited" => exitCode \in {0, 1})
    /\ [](tool = "update" => pc \notin UnracedWaits)
    /\ (pc \in Waits) ~> (pc = "exited" \/ pc \in UnracedWaits)

\* the deploy script's timer ended a run whose submission the ledger never
\* answered
C13_Witness ==
    /\ Exited("deploy") /\ exitCode = 1 /\ reported = "Timeout"
    /\ tx.state = "sent" /\ timers[1].state = "fired"

(***************************************************************************)
(* query-history.ts: the indexing status, then the price history           *)
(***************************************************************************)
MaxStatuses == 1
MaxRecords == 2

StrOne == <<49>>
StrConstructor == <<99, 111, 110, 115, 116, 114, 117, 99, 116, 111, 114>>

\* the property names every object literal inherits from Object.prototype:
\* constructor, toString, toLocaleString, valueOf, hasOwnProperty,
\* isPrototypeOf, propertyIsEnumerable, __proto__, __defineGetter__,
\* __defineSetter__, __lookupGetter__, __lookupSetter__
ObjectPrototypeNames ==
    {<<99, 111, 110, 115, 116, 114, 117, 99, 116, 111, 114>>,
     <<116, 111, 83, 116, 114, 105, 110, 103>>,
     <<116, 111, 76, 111, 99, 97, 108, 101, 83, 116, 114, 105, 110, 103>>,
     <<118, 97, 108, 117, 101, 79, 102>>,
     <<104, 97, 115, 79, 119, 110, 80, 114, 111, 112, 101, 114, 116, 121>>,
     <<105, 115, 80, 114, 111, 116, 111, 116, 121, 112, 101, 79, 102>>,
     <<112, 114, 111, 112, 101, 114, 116, 121, 73, 115, 69, 110, 117, 109, 101, 114, 97, 98, 108, 101>>,
     <<95, 95, 112, 114, 111, 116, 111, 95, 95>>,
     <<95, 95, 100, 101, 102, 105, 110, 101, 71, 101, 116, 116, 101, 114, 95, 95>>,
     <<95, 95, 100, 101, 102, 105, 110, 101, 83, 101, 116, 116, 101, 114, 95, 95>>,
     <<95, 95, 108, 111, 111, 107, 117, 112, 71, 101, 116, 116, 101, 114, 95, 95>>,
     <<95, 95, 108, 111, 111, 107, 117, 112, 83, 101, 116, 116, 101, 114, 95, 95>>}

\* a decimal number as GraphQL and the mirror node print it (0..9 here)
DigitString(n) == <<48 + n>>

\* what a printed field holds: [text, number]
NotPrinted == <<"", 0>>
Unknown == <<"Unknown", 0>>
InvalidDate == <<"Invalid Date", 0>>

\* new Date(seconds * 1000).toLocaleString(), NaN giving "Invalid Date"
LocaleDate(seconds) ==
    IF seconds.nan THEN InvalidDate ELSE <<"date", seconds.val * 1000>>

\* parseFloat of a field of the answer: NaN for a missing field or a text
\* without leading digits (timestamps are whole seconds here)
parseFloat(field) == IF field = <<-1>> THEN [nan |-> TRUE, val |-> 0] ELSE parseInt(field)

\* the answers the mirror node can give for block b: the request fails, the
\* body is not JSON, the body has no timestamp (a 404 body), the timestamp
\* has no "to", "to" is not a number, the block
BlockAnswers(b) ==
    {[fetch |-> "reject",  json |-> FALSE, timestamp |-> FALSE, to |-> <<-1>>],
     [fetch |-> "resolve", json |-> FALSE, timestamp |-> FALSE, to |-> <<-1>>],
     [fetch |-> "resolve", json |-> TRUE,  timestamp |-> FALSE, to |-> <<-1>>],
     [fetch |-> "resolve", json |-> TRUE,  timestamp |-> TRUE,  to |-> <<-1>>],
     [fetch |-> "resolve", json |-> TRUE,  timestamp |-> TRUE,  to |-> <<110, 47, 97>>],
     [fetch |-> "resolve", json |-> TRUE,  timestamp |-> TRUE,
      to |-> DigitString(BlockTimestamp(b))]}

\* getBlockTimestamp once the mirror node has answered
getBlockTimestamp(answer) ==
    IF answer.fetch = "reject" THEN Unknown
    ELSE IF ~answer.json THEN Unknown
    ELSE IF ~answer.timestamp THEN Unknown
    ELSE LocaleDate(parseFloat(answer.to))

\* one entry of indexingStatuses: chains is null, empty, or holds one chain
\* whose head is the newest block
StatusOptions ==
    {[chains |-> "null", latest |-> <<>>, head |-> <<>>],
     [chains |-> "empty", latest |-> <<>>, head |-> <<>>]}
    \cup {[chains |-> "one", latest |-> DigitString(l), head |-> DigitString(NumBlocks)] :
            l \in 1..NumBlocks}

StatusAnswers == UNION {[1..n -> StatusOptions] : n \in 0..MaxStatuses}

\* the asset names on record: BTC, ETH, "1" and "constructor"
QueryNames == {StrBTC, StrETH, StrOne, StrConstructor}

\* priceUpdates(orderBy: timestamp, orderDirection: desc) for the names ns
PriceUpdatesOf(ns) ==
    [i \in 1..Len(ns) |->
        [id |-> i, asset |-> BytesToHex(stringToBytes32(ns[i]).bytes),
         price |-> <<49, 50, 51, 52, 53, 54>>,
         timestamp |-> DigitString(Len(ns) - i + 1), transactionHash |-> i]]

PriceAnswers == {PriceUpdatesOf(ns) : ns \in UNION {[1..n -> QueryNames] : n \in 0..MaxRecords}}

\* what is printed for one status before its block lookups
StatusEntry(i, chain) ==
    [subgraph |-> i, chain |-> chain, latest |-> NotPrinted, head |-> NotPrinted,
     behind |-> NotPrinted]

RECURSIVE StatusLoop(_, _, _)
\* the for loop over the statuses from entry i on, up to its next await:
\* status.chains[0] throws on null chains, an empty chains prints no blocks
StatusLoop(list, i, rep) ==
    IF i > Len(list) THEN [pc |-> "pricesWait", index |-> i, report |-> rep]
    ELSE IF list[i].chains = "null"
    THEN [pc |-> "threw", index |-> i, report |-> Append(rep, StatusEntry(i, FALSE))]
    ELSE IF list[i].chains = "empty"
    THEN StatusLoop(list, i + 1, Append(rep, StatusEntry(i, FALSE)))
    ELSE [pc |-> "latestWait", index |-> i, report |-> Append(rep, StatusEntry(i, TRUE))]

\* parseInt(head) - parseInt(latest)
BlocksBehind(st) ==
    LET h == parseInt(st.head)
        l == parseInt(st.latest)
    IN  IF h.nan \/ l.nan THEN <<"NaN", 0>> ELSE <<"number", h.val - l.val>>

\* "4294967294", the largest array index (2^32 - 2)
MaxArrayIndex == <<52, 50, 57, 52, 57, 54, 55, 50, 57, 52>>

\* a <= b for canonical decimal numerals
NumeralLeq(a, b) ==
    \/ Len(a) < Len(b)
    \/ /\ Len(a) = Len(b)
       /\ \/ a = b
          \/ \E i \in 1..Len(a) : a[i] < b[i] /\ \A j \in 1..(i - 1) : a[j] = b[j]

\* an array index as a property key: the canonical decimal form of 0..2^32-2
IsArrayIndex(k) ==
    /\ k # <<>>
    /\ \A i \in 1..Len(k) : IsDigit(k[i])
    /\ (Len(k) = 1 \/ k[1] # 48)
    /\ NumeralLeq(k, MaxArrayIndex)

\* the object has an own property k
HasOwn(props, k) == \E i \in 1..Len(props) : props[i].key = k

\* one step of the reduce over priceUpdates; acc holds the own properties in
\* creation order. acc[asset] of a name inherited from Object.prototype is
\* truthy and has no push
GroupStep(acc, update) ==
    LET asset == bytes32ToString(update.asset)
    IN  IF acc.threw THEN acc
        ELSE IF HasOwn(acc.props, asset)
        THEN [acc EXCEPT !.props =
                 [i \in 1..Len(acc.props) |->
                     IF acc.props[i].key = asset
                     THEN [acc.props[i] EXCEPT !.rows = Append(@, update)]
                     ELSE acc.props[i]]]
        ELSE IF asset \in ObjectPrototypeNames THEN [acc EXCEPT !.threw = TRUE]
        ELSE [acc EXCEPT !.props = Append(@, [key |-> asset, rows |-> <<update>>])]

RECURSIVE Reduce(_, _)
\* priceData.priceUpdates.reduce(..., {})
Reduce(updates, acc) ==
    IF updates = <<>> THEN acc ELSE Reduce(Tail(updates), GroupStep(acc, Head(updates)))

RECURSIVE AscendingIndices(_)
\* the array-index keys in ascending numeric order
AscendingIndices(props) ==
    IF props = <<>> THEN <<>>
    ELSE LET m == CHOOSE i \in 1..Len(props) :
                      \A j \in 1..Len(props) :
                          NumeralLeq(props[i].key, props[j].key)
         IN  <<props[m]>> \o
             AscendingIndices([j \in 1..(Len(props) - 1) |->
                                  IF j < m THEN props[j] ELSE props[j + 1]])

\* Object.entries(groupedUpdates): array-index keys first, in ascending order,
\* then the other keys in creation order
ObjectEntries(props) ==
    AscendingIndices(SelectSeq(props, LAMBDA e : IsArrayIndex(e.key)))
        \o SelectSeq(props, LAMBDA e : ~IsArrayIndex(e.key))

\* one row of a table: the localized date, the price, the transaction hash
RenderRow(update) ==
    [date |-> LocaleDate(parseInt(update.timestamp)), price |-> update.price,
     txHash |-> update.transactionHash]

\* the tables printed by the for loop over Object.entries(groupedUpdates)
RenderGroups(entries) ==
    [i \in 1..Len(entries) |->
        [asset |-> entries[i].key,
         rows |-> [j \in 1..Len(entries[i].rows) |-> RenderRow(entries[i].rows[j])]]]

\* the catch block of main(): "Error fetching data", process.exit(1)
QueryCaught(step) ==
    /\ Exit(1, "Error fetching data")
    /\ qFailure' = step

\* main() runs on from the for loop to its next await, or into the catch block
QueryGoes(r) ==
    /\ statusReport' = r.report
    /\ qIndex' = r.index
    /\ IF r.pc = "threw"
       THEN QueryCaught("status") /\ UNCHANGED netOps
       ELSE /\ pc' = r.pc
            /\ netOps' = Append(netOps, IF r.pc = "pricesWait" THEN "priceUpdates" ELSE "block")
            /\ UNCHANGED <<exitCode, reported, now, qFailure>>

\* main() of query-history.ts up to statusClient.request
InvokeQuery ==
    /\ tool = "none" /\ pc = "idle"
    /\ tool' = "query"
    /\ pc' = "statusWait"
    /\ netOps' = <<"indexingStatuses">>
    /\ runs' = runs + 1
    /\ UNCHANGED <<argv, parsed, exitCode, reported, now, timers, tx, receipt, fileVars,
                   queryVars>>

\* statusClient.request settles
StatusSettles(ok, answer) ==
    /\ tool = "query" /\ pc = "statusWait"
    /\ IF ok
       THEN /\ qStatuses' = answer
            /\ QueryGoes(StatusLoop(answer, 1, <<>>))
       ELSE /\ QueryCaught("status")
            /\ UNCHANGED <<netOps, qStatuses, qIndex, statusReport>>
    /\ UNCHANGED <<tool, argv, parsed, timers, tx, receipt, runs, fileVars, qRecords,
                   qLookups, priceReport>>

\* the block whose timestamp main() is waiting for
AwaitedBlock ==
    IF pc = "latestWait" THEN qStatuses[qIndex].latest
    ELSE IF pc = "headWait" THEN qStatuses[qIndex].head
    ELSE DigitString(0)

\* getBlockTimestamp settles: the field is printed and main() goes on
BlockSettles(answer) ==
    /\ tool = "query" /\ pc \in {"latestWait", "headWait"}
    /\ qLookups' = Append(qLookups, [index |-> qIndex, field |-> pc, answer |-> answer])
    /\ IF pc = "latestWait"
       THEN /\ statusReport' = [statusReport EXCEPT ![qIndex].latest = getBlockTimestamp(answer)]
            /\ pc' = "headWait"
            /\ netOps' = Append(netOps, "block")
            /\ UNCHANGED <<exitCode, reported, now, qFailure, qIndex>>
       ELSE QueryGoes(StatusLoop(qStatuses, qIndex + 1,
                [statusReport EXCEPT ![qIndex].head = getBlockTimestamp(answer),
                                     ![qIndex].behind = BlocksBehind(qStatuses[qIndex])]))
    /\ UNCHANGED <<tool, argv, parsed, timers, tx, receipt, runs, fileVars, qStatuses,
                   qRecords, priceReport>>

\* subgraphClient.request settles: group, print the tables, return from main()
PricesSettles(ok, answer) ==
    /\ tool = "query" /\ pc = "pricesWait"
    /\ IF ok
       THEN LET g == Reduce(answer, [threw |-> FALSE, props |-> <<>>])
            IN  /\ qRecords' = answer
                /\ IF g.threw
                   THEN QueryCaught("prices") /\ UNCHANGED priceReport
                   ELSE /\ priceReport' = RenderGroups(ObjectEntries(g.props))
                        /\ Exit(0, "")
                        /\ UNCHANGED qFailure
       ELSE /\ QueryCaught("prices")
            /\ UNCHANGED <<qRecords, priceReport>>
    /\ UNCHANGED <<tool, argv, parsed, netOps, timers, tx, receipt, runs, fileVars,
                   qStatuses, qIndex, qLookups, statusReport>>

(***************************************************************************)
(* SpecQuery: one run of query-history.ts against every answer             *)
(***************************************************************************)
QueryInit == ContractIdle /\ CodecIdle /\ ToolsIdle

QueryNext ==
    \/ InvokeQuery /\ UNCHANGED <<contractVars, codecVars>>
    \/ (\E ok \in BOOLEAN, a \in StatusAnswers : StatusSettles(ok, a))
           /\ UNCHANGED <<contractVars, codecVars>>
    \/ (\E a \in BlockAnswers(parseInt(AwaitedBlock).val) : BlockSettles(a))
           /\ UNCHANGED <<contractVars, codecVars>>
    \/ (\E ok \in BOOLEAN, a \in PriceAnswers : PricesSettles(ok, a))
           /\ UNCHANGED <<contractVars, codecVars>>

SpecQuery == QueryInit /\ [][QueryNext]_vars

(***************************************************************************)
(* Claims about query-history.ts                                           *)
(***************************************************************************)
\* the lookup did not yield a timestamp: the request failed, or the body did
\* not decode to a block with a numeric timestamp.to
LookupFailed(answer) ==
    \/ answer.fetch = "reject"
    \/ ~answer.json
    \/ ~answer.timestamp
    \/ parseFloat(answer.to).nan

\* the field printed for a lookup
FieldPrinted(l) ==
    IF l.field = "latestWait" THEN statusReport[l.index].latest
    ELSE statusReport[l.index].head

\* the report went through every status and the price history
ReportComplete ==
    /\ Len(statusReport) = Len(qStatuses)
    /\ \A i \in 1..Len(statusReport) :
           statusReport[i].chain =>
               /\ statusReport[i].latest # NotPrinted
               /\ statusReport[i].head # NotPrinted
               /\ statusReport[i].behind # NotPrinted
    /\ Len(qRecords) > 0 => Len(priceReport) > 0

\* C11: a block-timestamp lookup that fails (network or decode) prints
\* "Unknown" for that field and nothing else changes: the run still goes
\* through the remaining fields and the price history, and only a failure of
\* the status query or of the price query ends it, with exit code 1.
C11_LookupFailureDegrades ==
    /\ \A k \in 1..Len(qLookups) :
           LookupFailed(qLookups[k].answer) => FieldPrinted(qLookups[k]) = Unknown
    /\ (Exited("query") /\ qFailure = "none") => (exitCode = 0 /\ ReportComplete)
    /\ qFailure # "none" => (Exited("query") /\ exitCode = 1)

RECURSIVE FirstAppearances(_, _)
\* the names of a list without repetitions, each where it first appears
FirstAppearances(names, seen) ==
    IF names = <<>> THEN <<>>
    ELSE IF Head(names) \in seen THEN FirstAppearances(Tail(names), seen)
    ELSE <<Head(names)>> \o FirstAppearances(Tail(names), seen \cup {Head(names)})

\* the decoded asset name of each returned record
DecodedNames == [i \in 1..Len(qRecords) |-> bytes32ToString(qRecords[i].asset)]

\* one table per name in order of first appearance, its rows the records of
\* that name in the order of the returned list
GroupsByFirstAppearance ==
    LET names == FirstAppearances(DecodedNames, {})
    IN  [k \in 1..Len(names) |->
            [asset |-> names[k],
             rows |-> LET mine == SelectSeq(qRecords,
                                      LAMBDA u : bytes32ToString(u.asset) = names[k])
                      IN  [j \in 1..Len(mine) |-> RenderRow(mine[j])]]]

\* C12: for every returned list of price updates, the tables the run prints
\* are one per decoded asset name, in the order in which the names first
\* appear in the list, each record in the table of its name and in the
\* list's order.
C12_GroupsInOrderOfFirstAppearance ==
    (Exited("query") /\ exitCode = 0) => priceReport = GroupsByFirstAppearance

====
